---- MODULE Spec2Model ----
(***************************************************************************)
(* leucite: sandboxing of a child process between fork and exec.           *)
(*                                                                         *)
(*   src/src/prlimit.rs   MemorySize, into_rlimit, Limit::limit            *)
(*   src/src/lib.rs       Rules (builder, Rules::restrict), CommandExt     *)
(*                                                                         *)
(* The landlock crate, prlimit(2) and Command::pre_exec are the            *)
(* environment of the crate.  They are modelled by what they do for the    *)
(* calls the crate makes: a ruleset is a set of path-beneath and port      *)
(* rules, restrict_self stacks it on the calling process as a layer, and   *)
(* pre_exec closures run in the child in registration order, the first     *)
(* error aborting the spawn.                                               *)
(***************************************************************************)
EXTENDS Integers, Sequences, FiniteSets, TLC

VARIABLES
    rules,    \* the Rules value (lib.rs:74-80)
    cmd,      \* the Command: its flavour and its pre_exec closures
    calls,    \* the CommandExt calls the caller has made on cmd, in order
    env,      \* the kernel the child runs on: landlock ABI, injected fault, privilege
    parent,   \* the spawning process: resource limits and landlock layers
    child,    \* the forked child: position, limits, layers, hooks run, calls made
    spawn,    \* what spawn() returned to the parent
    prog,     \* the program image after exec: the operation it tried and its exit
    mem,      \* a MemorySize being constructed and read back
    sibs      \* the spawns that share rules: each one's command, child and result

vars == <<rules, cmd, calls, env, parent, child, spawn, prog, mem, sibs>>

None == "none"

(***************************************************************************)
(* Bounds of the model.                                                    *)
(***************************************************************************)
\* Largest count handed to a MemorySize constructor.
MaxCount == 5
\* Builder calls (add_read_only .. add_bind_port) made on one Rules value.
MaxRules == 3
\* CommandExt calls made on one Command.
MaxCalls == 2

\* Byte counts are kept below 2^31; every value of the model is far below
\* 2^64, where u64 arithmetic is exact.
IntCap == (2^30 - 1) * 2 + 1

(***************************************************************************)
(* MemorySize (prlimit.rs:6-33).  MemorySize(u64) is its byte count.       *)
(***************************************************************************)
from_bytes(n) == n * 1
bytes(self) == self \div 1

from_kb(n) == n * 1000
kilobytes(self) == self \div 1000

\* Mutant: megabytes scaled as kilobytes.
from_mb_kilo(n) == n * 1000

from_mb(n) == n * (1000 * 1000)
megabytes(self) == self \div (1000 * 1000)

from_gb(n) == n * (1000 * 1000 * 1000)
gigabytes(self) == self \div (1000 * 1000 * 1000)

from_kib(n) == n * 1024
kibibytes(self) == self \div 1024

from_mib(n) == n * (1024 * 1024)
mebibytes(self) == self \div (1024 * 1024)

from_gib(n) == n * (1024 * 1024 * 1024)
gibibytes(self) == self \div (1024 * 1024 * 1024)

Units == {"bytes", "kilobytes", "megabytes", "gigabytes",
          "kibibytes", "mebibytes", "gibibytes"}

\* The constructor of the macro invocation that defines accessor u.
Construct(u, n) ==
    CASE u = "bytes"     -> from_bytes(n)
      [] u = "kilobytes" -> from_kb(n)
      [] u = "megabytes" -> from_mb(n)
      [] u = "gigabytes" -> from_gb(n)
      [] u = "kibibytes" -> from_kib(n)
      [] u = "mebibytes" -> from_mib(n)
      [] u = "gibibytes" -> from_gib(n)

Access(u, self) ==
    CASE u = "bytes"     -> bytes(self)
      [] u = "kilobytes" -> kilobytes(self)
      [] u = "megabytes" -> megabytes(self)
      [] u = "gigabytes" -> gigabytes(self)
      [] u = "kibibytes" -> kibibytes(self)
      [] u = "mebibytes" -> mebibytes(self)
      [] u = "gibibytes" -> gibibytes(self)

\* Largest count of unit u whose byte count stays inside the model's integers.
UnitCap(u) ==
    CASE u = "bytes"     -> IntCap
      [] u = "kilobytes" -> IntCap \div 1000
      [] u = "megabytes" -> IntCap \div 1000000
      [] u = "gigabytes" -> IntCap \div 1000000000
      [] u = "kibibytes" -> IntCap \div 1024
      [] u = "mebibytes" -> IntCap \div 1048576
      [] u = "gibibytes" -> IntCap \div 1073741824

\* Byte counts that are not multiples of a unit, around every scale.
ByteSamples == {999, 1001, 1023, 1025, 1500000, 5000000, 5242880,
                999999999, 1073741823, 1073741825}

Counts(u) ==
    {n \in (0 .. MaxCount) \cup (IF u = "bytes" THEN ByteSamples ELSE {}) :
        n <= UnitCap(u)}

NoMem == [unit |-> None, count |-> 0, size |-> 0, read |-> None, out |-> 0]

(***************************************************************************)
(* Rules and its builder (lib.rs:73-116).                                  *)
(***************************************************************************)
\* Paths are sequences of components; the paths a policy may declare.
Paths == {<<"usr">>, <<"usr", "lib">>, <<"tmp">>}
\* Files a program may touch, inside and outside the declared paths.
Targets == Paths \cup {<<"usr", "bin">>, <<"tmp", "out">>, <<"home", "user">>}
Ports == {80, 443}

Rules_new ==
    [read_only |-> <<>>, read_write |-> <<>>, write_only |-> <<>>,
     bind_ports |-> <<>>, connect_ports |-> <<>>]

add_read_only(self, p) == [self EXCEPT !.read_only = Append(@, p)]

add_read_write(self, p) == [self EXCEPT !.read_write = Append(@, p)]

add_write_only(self, p) == [self EXCEPT !.write_only = Append(@, p)]

add_connect_port(self, p) == [self EXCEPT !.connect_ports = Append(@, p)]

add_bind_port(self, p) == [self EXCEPT !.bind_ports = Append(@, p)]

RulesLen(self) ==
    Len(self.read_only) + Len(self.read_write) + Len(self.write_only)
        + Len(self.bind_ports) + Len(self.connect_ports)

(***************************************************************************)
(* The landlock interface as Rules::restrict uses it.                      *)
(* Access rights are kept as four classes: "read" (ReadFile, ReadDir,      *)
(* Execute), "write" (WriteFile and the other modifying rights), "bind"    *)
(* (BindTcp) and "connect" (ConnectTcp).                                   *)
(***************************************************************************)
\* let abi = ABI::V4
ABI_V4 == 4

AccessFs_from_read(abi) == IF abi >= 1 THEN {"read"} ELSE {}

AccessFs_from_write(abi) == IF abi >= 1 THEN {"write"} ELSE {}

AccessFs_from_all(abi) == AccessFs_from_read(abi) \cup AccessFs_from_write(abi)

AccessNet_from_all(abi) == IF abi >= 4 THEN {"bind", "connect"} ELSE {}

\* Landlock ABIs of the running kernel: none, filesystem only, filesystem
\* and network.
KernelAbis == {0, 3, 4}

\* What a kernel of ABI k can restrict.
Supported(k) == AccessFs_from_all(k) \cup AccessNet_from_all(k)

\* The steps of Rules::restrict at which the landlock crate can return Err.
Stages == {"handle_fs", "handle_net", "create", "bind", "connect",
           "read_only", "write_only", "read_write", "restrict_self"}

\* NetPort::new(port, access)
NetPort_new(port, access) == [kind |-> "port", port |-> port, access |-> {access}]

\* path_beneath_rules(paths, access): one PathBeneath per path, in order.
path_beneath_rules(paths, access) ==
    [i \in 1 .. Len(paths) |->
        [kind |-> "path", path |-> paths[i], access |-> access]]

\* One add_rule call per rule of the list, all belonging to one stage whose
\* failure maps to err.
AddRules(stage, err, rs) ==
    [i \in 1 .. Len(rs) |->
        [stage |-> stage, call |-> "add_rule", rule |-> rs[i], err |-> err]]

Step(stage, call, access, err) ==
    <<[stage |-> stage, call |-> call,
       rule |-> [kind |-> "classes", access |-> access], err |-> err]>>

\* Mutant: an empty list adds no rule.
BindRules_nosentinel(self) ==
    [i \in 1 .. Len(self.bind_ports) |-> NetPort_new(self.bind_ports[i], "bind")]

BindRules(self) ==
    IF self.bind_ports = <<>>
    THEN <<NetPort_new(0, "bind")>>
    ELSE [i \in 1 .. Len(self.bind_ports) |-> NetPort_new(self.bind_ports[i], "bind")]

ConnectRules(self) ==
    IF self.connect_ports = <<>>
    THEN <<NetPort_new(0, "connect")>>
    ELSE [i \in 1 .. Len(self.connect_ports) |->
            NetPort_new(self.connect_ports[i], "connect")]

ReadOnlyRules(self) == path_beneath_rules(self.read_only, AccessFs_from_read(ABI_V4))

WriteOnlyRules(self) == path_beneath_rules(self.write_only, AccessFs_from_write(ABI_V4))

\* Mutant: read-write paths get the read rights only.
ReadWriteRules_read(self) == path_beneath_rules(self.read_write, AccessFs_from_read(ABI_V4))

ReadWriteRules(self) == path_beneath_rules(self.read_write, AccessFs_from_all(ABI_V4))

\* The calls Rules::restrict makes when none fails, in program order, each
\* with the Error variant its failure is mapped to.
RestrictSteps(self) ==
    Step("handle_fs", "handle_access", AccessFs_from_all(ABI_V4), "AccessFs")
    \o Step("handle_net", "handle_access", AccessNet_from_all(ABI_V4), "AcessNet")
    \o Step("create", "create", {}, "CreateRuleset")
    \o AddRules("bind", "SetBindPorts", BindRules(self))
    \o AddRules("connect", "SetConnectPorts", ConnectRules(self))
    \o AddRules("read_only", "AccessFs", ReadOnlyRules(self))
    \o AddRules("write_only", "AccessFs", WriteOnlyRules(self))
    \o AddRules("read_write", "AccessFs", ReadWriteRules(self))
    \o Step("restrict_self", "restrict_self", {}, "AccessFs")

\* The first step the kernel refuses: the e.nth call of the faulty stage, if
\* the stage has that many calls.  A kernel without landlock refuses
\* nothing, the crate then calls nothing.
FirstFailure(steps, e) ==
    LET bad == {i \in 1 .. Len(steps) :
                   /\ e.abi > 0
                   /\ steps[i].stage = e.failAt
                   /\ Cardinality({j \in 1 .. i : steps[j].stage = e.failAt}) = e.nth}
    IN  IF bad = {} THEN 0 ELSE CHOOSE i \in bad : \A j \in bad : i <= j

\* status.ruleset as restrict_self reports it for the classes handled.
RulesetStatus(handled, requested) ==
    IF handled = {} THEN "NotEnforced"
    ELSE IF handled = requested THEN "FullyEnforced"
    ELSE "PartiallyEnforced"

\* The layer restrict_self installs: the classes the kernel handles and the
\* rules added for them.
Layer(steps, handled) ==
    LET added(kind) == {steps[i].rule : i \in {j \in 1 .. Len(steps) :
                            steps[j].call = "add_rule" /\ steps[j].rule.kind = kind}}
    IN  [handled |-> handled,
         fs  |-> {[path |-> r.path, access |-> r.access \cap handled] : r \in added("path")},
         net |-> {[port |-> r.port, access |-> r.access \cap handled] : r \in added("port")}]

NoLayer == [handled |-> {}, fs |-> {}, net |-> {}]

\* Mutant: the status is not looked at.
StatusResult_unchecked(status) == "Ok"

\* The status check that ends Rules::restrict (lib.rs:170-173).
StatusResult(status) ==
    IF status = "NotEnforced" THEN "LandlockNotSupported" ELSE "Ok"

\* Mutant: a refused call is reported, but the remaining steps are still
\* made and the ruleset is enforced.
Rules_restrict_goes_on(self, e) ==
    LET steps == RestrictSteps(self)
        f == FirstFailure(steps, e)
        requested == AccessFs_from_all(ABI_V4) \cup AccessNet_from_all(ABI_V4)
        handled == requested \cap Supported(e.abi)
        status == RulesetStatus(handled, requested)
    IN  [result |-> IF f > 0 THEN steps[f].err ELSE StatusResult(status),
         status |-> status, calls |-> steps,
         enforced |-> status # "NotEnforced",
         layer |-> IF status = "NotEnforced" THEN NoLayer
                   ELSE Layer(steps, handled)]

\* Rules::restrict(&self) on a process running on kernel e: the calls made,
\* the Result returned, and the layer now enforced on the caller (if any).
Rules_restrict(self, e) ==
    LET steps == RestrictSteps(self)
        f == FirstFailure(steps, e)
        requested == AccessFs_from_all(ABI_V4) \cup AccessNet_from_all(ABI_V4)
        handled == requested \cap Supported(e.abi)
        status == RulesetStatus(handled, requested)
    IN  IF f > 0
        THEN [result |-> steps[f].err, status |-> None,
              calls |-> SubSeq(steps, 1, f), enforced |-> FALSE, layer |-> NoLayer]
        ELSE [result |-> StatusResult(status), status |-> status,
              calls |-> steps, enforced |-> status # "NotEnforced",
              layer |-> IF status = "NotEnforced" THEN NoLayer
                        ELSE Layer(steps, handled)]

\* p lies at or beneath q.
Beneath(p, q) == Len(q) <= Len(p) /\ SubSeq(p, 1, Len(q)) = q

\* Mutant: a layer refuses nothing that no rule names.
LayerAllows_unhandled(layer, class, at) ==
    \/ class \notin layer.handled
    \/ \A r \in layer.fs : ~Beneath(at, r.path)
    \/ /\ class \in {"read", "write"}
       /\ \E r \in layer.fs : class \in r.access /\ Beneath(at, r.path)
    \/ /\ class \in {"bind", "connect"}
       /\ \E r \in layer.net : class \in r.access /\ r.port = at

\* One layer's verdict: rights of all rules on the path's ancestors add up.
LayerAllows(layer, class, at) ==
    \/ class \notin layer.handled
    \/ /\ class \in {"read", "write"}
       /\ \E r \in layer.fs : class \in r.access /\ Beneath(at, r.path)
    \/ /\ class \in {"bind", "connect"}
       /\ \E r \in layer.net : class \in r.access /\ r.port = at

\* The kernel's verdict for a process: every layer must allow the access.
Allowed(domains, class, at) ==
    \A i \in 1 .. Len(domains) : LayerAllows(domains[i], class, at)

(***************************************************************************)
(* Resource limits (prlimit.rs:39-97).                                     *)
(***************************************************************************)
\* enum Limit
Limits == {"Cpu", "FileSize", "Data", "Stack", "Core", "ResidentSetSize",
           "NumberProcesses", "NumberFiles", "MemoryLock", "AddressSpace",
           "Locks", "SignalPending", "MessageQueue", "Nice", "RTPrio", "RTTime"}

\* libc::RLIM_INFINITY, the largest value of the limit type.
RLIM_INFINITY == IntCap

\* Mutant: only the soft limit is set.
into_rlimit_soft(n) == [rlim_cur |-> n, rlim_max |-> RLIM_INFINITY]

into_rlimit(n) == [rlim_cur |-> n, rlim_max |-> n]

\* prlimit(0, resource, &new, NULL) on the calling process: EINVAL for a soft
\* limit above the hard one, EPERM for raising the hard limit without
\* CAP_SYS_RESOURCE, else the limit is replaced.
libc_prlimit(rlim, resource, new, e) ==
    IF new.rlim_cur > new.rlim_max
    THEN [ret |-> -1, errno |-> "EINVAL", rlim |-> rlim]
    ELSE IF new.rlim_max > rlim[resource].rlim_max /\ ~e.privileged
    THEN [ret |-> -1, errno |-> "EPERM", rlim |-> rlim]
    ELSE [ret |-> 0, errno |-> None, rlim |-> [rlim EXCEPT ![resource] = new]]

\* Limit::limit(self, size): Ok(()) when prlimit returns 0, else the errno.
Limit_limit(self, size, rlim, e) ==
    LET limit == into_rlimit(size)
        r == libc_prlimit(rlim, self, limit, e)
    IN  IF r.ret = 0
        THEN [result |-> "Ok", rlim |-> r.rlim,
              calls |-> <<[call |-> "prlimit", resource |-> self, limit |-> limit]>>]
        ELSE [result |-> r.errno, rlim |-> r.rlim,
              calls |-> <<[call |-> "prlimit", resource |-> self, limit |-> limit]>>]

(***************************************************************************)
(* CommandExt (lib.rs:179-259).  A closure handed to pre_exec is kept as   *)
(* the function it will call and the value it captured.                    *)
(***************************************************************************)
\* spawn() has not returned yet.
Pending == [ok |-> FALSE, kind |-> "pending", cause |-> None]

Ok == [ok |-> TRUE, kind |-> None, cause |-> None]

\* An io::Error: io::Error::new(kind, cause), or an OS error number.
Err(kind, cause) == [ok |-> FALSE, kind |-> kind, cause |-> cause]

\* Mutant: the closure drops the error of Rules::restrict.
restrict_closure_swallow(captured, proc, e) ==
    LET r == Rules_restrict(captured, e)
    IN  [ret |-> Ok,
         fn |-> "restrict", inner |-> r.result, status |-> r.status,
         calls |-> r.calls, rlim |-> proc.rlim,
         domains |-> IF r.enforced THEN Append(proc.domains, r.layer)
                     ELSE proc.domains]

\* Mutant: the layer enforced by the closure replaces the layers the process
\* already has.
restrict_closure_replaces(captured, proc, e) ==
    LET r == Rules_restrict(captured, e)
    IN  [ret |-> IF r.result = "Ok" THEN Ok ELSE Err("Other", r.result),
         fn |-> "restrict", inner |-> r.result, status |-> r.status,
         calls |-> r.calls, rlim |-> proc.rlim,
         domains |-> IF r.enforced THEN <<r.layer>> ELSE proc.domains]

\* move || rules.restrict().map_err(|e| io::Error::new(io::ErrorKind::Other, e))
restrict_closure(captured, proc, e) ==
    LET r == Rules_restrict(captured, e)
    IN  [ret |-> IF r.result = "Ok" THEN Ok ELSE Err("Other", r.result),
         fn |-> "restrict", inner |-> r.result, status |-> r.status,
         calls |-> r.calls, rlim |-> proc.rlim,
         domains |-> IF r.enforced THEN Append(proc.domains, r.layer)
                     ELSE proc.domains]

LimitClosure(fn, resource, captured, proc, e) ==
    LET r == Limit_limit(resource, bytes(captured), proc.rlim, e)
    IN  [ret |-> IF r.result = "Ok" THEN Ok ELSE Err("Os", r.result),
         fn |-> fn, inner |-> r.result, status |-> None,
         calls |-> r.calls, rlim |-> r.rlim, domains |-> proc.domains]

\* move || Limit::Data.limit(max_memory.bytes())
max_memory_closure(captured, proc, e) ==
    LimitClosure("max_memory", "Data", captured, proc, e)

\* move || Limit::FileSize.limit(max_file_size.bytes())
max_file_size_closure(captured, proc, e) ==
    LimitClosure("max_file_size", "FileSize", captured, proc, e)

\* Calling a registered closure in process proc.
CallClosure(f, proc, e) ==
    CASE f.fn = "restrict"      -> restrict_closure(f.captured, proc, e)
      [] f.fn = "max_memory"    -> max_memory_closure(f.captured, proc, e)
      [] f.fn = "max_file_size" -> max_file_size_closure(f.captured, proc, e)

Closure(fn, captured) == [fn |-> fn, captured |-> captured]

\* Mutant: the newest closure is run first.
Std_pre_exec_first(self, f) == [self EXCEPT !.closures = <<f>> \o @]

\* std::os::unix::process::CommandExt::pre_exec: the closure is pushed onto
\* the command's list of closures.
Std_pre_exec(self, f) == [self EXCEPT !.closures = Append(@, f)]

\* Mutant: the closure replaces the ones registered before.
Tokio_pre_exec_replace(self, f) == [self EXCEPT !.closures = <<f>>]

\* tokio::process::Command::pre_exec hands the closure to the std command it
\* wraps.
Tokio_pre_exec(self, f) == Std_pre_exec(self, f)

pre_exec(self, f) ==
    IF self.flavor = "std" THEN Std_pre_exec(self, f) ELSE Tokio_pre_exec(self, f)

\* impl_cmd!: the same three bodies for Command and for TokioCommand.
restrict(self, r) == pre_exec(self, Closure("restrict", r))

max_memory(self, m) == pre_exec(self, Closure("max_memory", m))

max_file_size(self, m) == pre_exec(self, Closure("max_file_size", m))

\* Option<T>: None and Some(x).
Absent == <<>>

Some(x) == <<x>>

\* The provided methods of the trait: an absent argument leaves the command
\* as it is.
restrict_if(self, r) == IF r # Absent THEN restrict(self, r[1]) ELSE self

max_memory_if(self, m) == IF m # Absent THEN max_memory(self, m[1]) ELSE self

max_file_size_if(self, m) == IF m # Absent THEN max_file_size(self, m[1]) ELSE self

\* One CommandExt call, by name.
CommandExtCall(self, fn, arg) ==
    CASE fn = "restrict"         -> restrict(self, arg)
      [] fn = "restrict_if"      -> restrict_if(self, arg)
      [] fn = "max_memory"       -> max_memory(self, arg)
      [] fn = "max_memory_if"    -> max_memory_if(self, arg)
      [] fn = "max_file_size"    -> max_file_size(self, arg)
      [] fn = "max_file_size_if" -> max_file_size_if(self, arg)

Command_new(flavor) == [flavor |-> flavor, closures |-> <<>>]

(***************************************************************************)
(* The processes.                                                          *)
(***************************************************************************)
\* Limits the parent runs under: unlimited, except that the hard limits the
\* crate sets may already have been lowered to hard.
ParentRlim(hard) ==
    [k \in Limits |->
        IF k \in {"Data", "FileSize"}
        THEN [rlim_cur |-> hard, rlim_max |-> hard]
        ELSE into_rlimit(RLIM_INFINITY)]

Unborn == [pc |-> "unborn", rlim |-> ParentRlim(RLIM_INFINITY), domains |-> <<>>,
           ran |-> <<>>, klog |-> <<>>]

NoProg == [op |-> None, class |-> None, at |-> <<>>, size |-> 0, exit |-> -1]

\* The policy of the crate's examples and tests: system directories
\* read-only, the working directory read-write.
Example == add_read_write(add_read_only(Rules_new, <<"usr">>), <<"tmp">>)

\* Sizes handed to max_memory and max_file_size.
MemSizes == {from_mb(5), from_mb(100)}
FileSizes == {from_kb(1)}

\* Hard limits the parent may run under.
ParentHards == {RLIM_INFINITY, from_mb(50)}

\* Total bytes the test program allocates: nine blocks of 1 MB, or one.
Allocs == {from_mb(9), from_mb(1)}

\* Exit code of the test program when malloc fails.
ExitOutOfMemory == 69

Flavors == {"std", "tokio"}

\* No spawn shares the Rules value.
NoSibs == <<>>

\* The caller makes one CommandExt call on the command.
Call(fn, arg) ==
    /\ child.pc = "unborn"
    /\ Len(calls) < MaxCalls
    /\ cmd' = CommandExtCall(cmd, fn, arg)
    /\ calls' = Append(calls, [fn |-> fn, arg |-> arg])
    /\ UNCHANGED <<rules, env, parent, child, spawn, prog, mem, sibs>>

CallRestrict == Call("restrict", rules)

\* A second Rules value given to the same command: the working directory
\* read-only and nothing else.
Second == add_read_only(Rules_new, <<"tmp">>)

CallRestrictSecond == Call("restrict", Second)

CallRestrictIf == \E o \in {Absent, Some(rules)} : Call("restrict_if", o)

CallMaxMemory == \E m \in MemSizes : Call("max_memory", m)

CallMaxMemoryIf ==
    \E o \in {Absent} \cup {Some(m) : m \in MemSizes} : Call("max_memory_if", o)

CallMaxFileSize == \E m \in FileSizes : Call("max_file_size", m)

CallMaxFileSizeIf ==
    \E o \in {Absent} \cup {Some(m) : m \in FileSizes} : Call("max_file_size_if", o)

\* spawn(): fork.  The child starts with the parent's limits and layers.
Fork ==
    /\ child.pc = "unborn"
    /\ child' = [pc |-> "pre_exec", rlim |-> parent.rlim, domains |-> parent.domains,
                 ran |-> <<>>, klog |-> <<>>]
    /\ UNCHANGED <<rules, cmd, calls, env, parent, spawn, prog, mem, sibs>>

\* The child calls its next closure.  An error ends the child before exec
\* and is what spawn() returns to the parent.
RunClosure ==
    /\ child.pc = "pre_exec"
    /\ Len(child.ran) < Len(cmd.closures)
    /\ LET f == cmd.closures[Len(child.ran) + 1]
           r == CallClosure(f, child, env)
       IN  /\ child' = [pc |-> IF r.ret.ok THEN "pre_exec" ELSE "aborted",
                        rlim |-> r.rlim, domains |-> r.domains,
                        ran |-> Append(child.ran,
                                   [fn |-> r.fn, inner |-> r.inner,
                                    status |-> r.status, ret |-> r.ret]),
                        klog |-> child.klog \o r.calls]
           /\ spawn' = IF r.ret.ok THEN spawn ELSE r.ret
    /\ UNCHANGED <<rules, cmd, calls, env, parent, prog, mem, sibs>>

\* Every closure returned Ok: the child execs and spawn() returns Ok.
Exec ==
    /\ child.pc = "pre_exec"
    /\ Len(child.ran) = Len(cmd.closures)
    /\ child' = [child EXCEPT !.pc = "exec"]
    /\ spawn' = Ok
    /\ UNCHANGED <<rules, cmd, calls, env, parent, prog, mem, sibs>>

\* The program opens a file for reading or writing (the node and deno
\* tests read /home/user) and exits 1 when the kernel refuses.
ProgAccess(T) ==
    /\ child.pc = "exec"
    /\ \E at \in T, class \in {"read", "write"} :
          prog' = [op |-> "open", class |-> class, at |-> at, size |-> 0,
                   exit |-> IF Allowed(child.domains, class, at) THEN 0 ELSE 1]
    /\ child' = [child EXCEPT !.pc = "exited"]
    /\ UNCHANGED <<rules, cmd, calls, env, parent, spawn, mem, sibs>>

\* The program allocates size bytes in blocks (tests/prlimit.rs); malloc
\* fails once the data segment would pass the soft limit.
ProgAlloc ==
    /\ child.pc = "exec"
    /\ \E size \in Allocs :
          prog' = [op |-> "alloc", class |-> None, at |-> <<>>, size |-> size,
                   exit |-> IF size > child.rlim["Data"].rlim_cur
                            THEN ExitOutOfMemory ELSE 0]
    /\ child' = [child EXCEPT !.pc = "exited"]
    /\ UNCHANGED <<rules, cmd, calls, env, parent, spawn, mem, sibs>>

ChildSteps == Fork \/ RunClosure \/ Exec

(***************************************************************************)
(* Spec: one Command, any CommandExt calls, spawned on any kernel.         *)
(***************************************************************************)
\* Kernels: each landlock ABI; where there is landlock, restrict_self may
\* also fail; the parent under either hard limit, and privileged or not when the
\* limit is finite.
SpawnEnvs ==
    {e \in [abi : KernelAbis, failAt : {None, "restrict_self"}, nth : {1},
            privileged : BOOLEAN, hard : ParentHards] :
        /\ e.failAt # None => e.abi > 0
        /\ e.privileged => e.hard # RLIM_INFINITY}

Init ==
    /\ rules = Example
    /\ cmd \in {Command_new(f) : f \in Flavors}
    /\ calls = <<>>
    /\ env \in SpawnEnvs
    /\ parent = [rlim |-> ParentRlim(env.hard), domains |-> <<>>]
    /\ child = Unborn
    /\ spawn = Pending
    /\ prog = NoProg
    /\ mem = NoMem
    /\ sibs = NoSibs

\* What the spawned program is seen to touch.
SpawnTargets == {<<"home", "user">>}

Next ==
    \/ CallRestrict
    \/ CallRestrictSecond
    \/ CallRestrictIf
    \/ CallMaxMemory
    \/ CallMaxMemoryIf
    \/ CallMaxFileSize
    \/ CallMaxFileSizeIf
    \/ Fork
    \/ RunClosure
    \/ Exec
    \/ ProgAccess(SpawnTargets)
    \/ ProgAlloc

Spec == Init /\ [][Next]_vars

(***************************************************************************)
(* SpecPolicy: a Rules value is built call by call, installed on a Command *)
(* with restrict, and the spawned program touches a file.                  *)
(***************************************************************************)
Building == child.pc = "unborn" /\ calls = <<>> /\ RulesLen(rules) < MaxRules

Built(r) ==
    /\ rules' = r
    /\ UNCHANGED <<cmd, calls, env, parent, child, spawn, prog, mem, sibs>>

AddReadOnly == Building /\ \E p \in Paths : Built(add_read_only(rules, p))

AddReadWrite == Building /\ \E p \in Paths : Built(add_read_write(rules, p))

AddWriteOnly == Building /\ \E p \in Paths : Built(add_write_only(rules, p))

AddConnectPort == Building /\ \E p \in Ports : Built(add_connect_port(rules, p))

AddBindPort == Building /\ \E p \in Ports : Built(add_bind_port(rules, p))

RestrictOnce == calls = <<>> /\ CallRestrict

SpawnRestricted == calls # <<>> /\ Fork

PolicyEnvs ==
    {[abi |-> a, failAt |-> None, nth |-> 1, privileged |-> FALSE,
      hard |-> RLIM_INFINITY] :
        a \in KernelAbis}

InitPolicy ==
    /\ rules = Rules_new
    /\ cmd = Command_new("std")
    /\ calls = <<>>
    /\ env \in PolicyEnvs
    /\ parent = [rlim |-> ParentRlim(env.hard), domains |-> <<>>]
    /\ child = Unborn
    /\ spawn = Pending
    /\ prog = NoProg
    /\ mem = NoMem
    /\ sibs = NoSibs

NextPolicy ==
    \/ AddReadOnly
    \/ AddReadWrite
    \/ AddWriteOnly
    \/ AddConnectPort
    \/ AddBindPort
    \/ RestrictOnce
    \/ SpawnRestricted
    \/ RunClosure
    \/ Exec
    \/ ProgAccess(Targets)

SpecPolicy == InitPolicy /\ [][NextPolicy]_vars

(***************************************************************************)
(* SpecFault: as SpecPolicy up to exec, on kernels that refuse one call of *)
(* Rules::restrict.                                                        *)
(***************************************************************************)
\* Which call of a stage the kernel refuses: its first or its second.
FaultNths == {1, 2}

\* Kernels that refuse nothing, and kernels with landlock ABI V4 that
\* refuse one call.
FaultEnvs ==
    PolicyEnvs \cup
    {[abi |-> ABI_V4, failAt |-> f, nth |-> n, privileged |-> FALSE,
      hard |-> RLIM_INFINITY] : f \in Stages, n \in FaultNths}

InitFault ==
    /\ rules = Rules_new
    /\ cmd = Command_new("std")
    /\ calls = <<>>
    /\ env \in FaultEnvs
    /\ parent = [rlim |-> ParentRlim(env.hard), domains |-> <<>>]
    /\ child = Unborn
    /\ spawn = Pending
    /\ prog = NoProg
    /\ mem = NoMem
    /\ sibs = NoSibs

NextFault ==
    \/ AddReadOnly
    \/ AddReadWrite
    \/ AddWriteOnly
    \/ AddConnectPort
    \/ AddBindPort
    \/ RestrictOnce
    \/ SpawnRestricted
    \/ RunClosure
    \/ Exec

SpecFault == InitFault /\ [][NextFault]_vars

(***************************************************************************)
(* SpecMem: a MemorySize is constructed in one unit and read in another.   *)
(***************************************************************************)
MemConstruct ==
    /\ mem.unit = None
    /\ \E u \in Units : \E n \in Counts(u) :
          mem' = [unit |-> u, count |-> n, size |-> Construct(u, n),
                  read |-> None, out |-> 0]
    /\ UNCHANGED <<rules, cmd, calls, env, parent, child, spawn, prog, sibs>>

MemAccess ==
    /\ mem.unit # None
    /\ mem.read = None
    /\ \E u \in Units :
          mem' = [mem EXCEPT !.read = u, !.out = Access(u, mem.size)]
    /\ UNCHANGED <<rules, cmd, calls, env, parent, child, spawn, prog, sibs>>

InitMem ==
    /\ rules = Rules_new
    /\ cmd = Command_new("std")
    /\ calls = <<>>
    /\ env \in {e \in PolicyEnvs : e.abi = ABI_V4}
    /\ parent = [rlim |-> ParentRlim(env.hard), domains |-> <<>>]
    /\ child = Unborn
    /\ spawn = Pending
    /\ prog = NoProg
    /\ mem = NoMem
    /\ sibs = NoSibs

NextMem == MemConstruct \/ MemAccess

SpecMem == InitMem /\ [][NextMem]_vars

(***************************************************************************)
(* SpecShared: several commands whose restrict closures hold clones of one *)
(* Arc<Rules>, spawned by one parent; their children run their closures in *)
(* any interleaving.                                                       *)
(***************************************************************************)
\* How many spawns share the Rules value.
MaxKids == 2

\* The commands built around the shared Rules r: restrict alone (the
\* compile step of prlimit_std), max_memory then restrict (its run step),
\* restrict then a limit above the parent's lowered hard limit, and a
\* command that does not take the Rules at all.
SharedKinds == {"compile", "run", "over", "plain"}

SharedCommand(kind, r) ==
    CASE kind = "compile" -> restrict(Command_new("std"), r)
      [] kind = "run"     -> restrict(max_memory(Command_new("std"), from_mb(5)), r)
      [] kind = "over"    -> max_memory(restrict(Command_new("tokio"), r), from_mb(100))
      [] kind = "plain"   -> max_file_size(Command_new("std"), from_kb(1))

Sib(c) == [cmd |-> c, child |-> Unborn, spawn |-> Pending]

InitShared ==
    /\ rules = Example
    /\ cmd = Command_new("std")
    /\ calls = <<>>
    /\ env \in SpawnEnvs
    /\ parent = [rlim |-> ParentRlim(env.hard), domains |-> <<>>]
    /\ child = Unborn
    /\ spawn = Pending
    /\ prog = NoProg
    /\ mem = NoMem
    /\ \E kinds \in [1 .. MaxKids -> SharedKinds] :
          sibs = [i \in 1 .. MaxKids |-> Sib(SharedCommand(kinds[i], rules))]

\* spawn() of the i-th command: its child starts with the parent's limits
\* and layers.
SibFork(i) ==
    /\ sibs[i].child.pc = "unborn"
    /\ sibs' = [sibs EXCEPT ![i].child =
                    [pc |-> "pre_exec", rlim |-> parent.rlim,
                     domains |-> parent.domains, ran |-> <<>>, klog |-> <<>>]]
    /\ UNCHANGED <<rules, cmd, calls, env, parent, child, spawn, prog, mem>>

\* Mutant: the closure acts on the spawning process instead of the forked
\* child.
SibRunClosure_in_parent(i) ==
    /\ sibs[i].child.pc = "pre_exec"
    /\ Len(sibs[i].child.ran) < Len(sibs[i].cmd.closures)
    /\ LET f == sibs[i].cmd.closures[Len(sibs[i].child.ran) + 1]
           r == CallClosure(f, parent, env)
       IN  /\ parent' = [rlim |-> r.rlim, domains |-> r.domains]
           /\ sibs' = [sibs EXCEPT
                  ![i].child = [pc |-> IF r.ret.ok THEN "pre_exec" ELSE "aborted",
                                rlim |-> r.rlim, domains |-> r.domains,
                                ran |-> Append(@.ran,
                                           [fn |-> r.fn, inner |-> r.inner,
                                            status |-> r.status, ret |-> r.ret]),
                                klog |-> @.klog \o r.calls],
                  ![i].spawn = IF r.ret.ok THEN @ ELSE r.ret]
    /\ UNCHANGED <<rules, cmd, calls, env, child, spawn, prog, mem>>

\* The i-th child calls its next closure, in its own process: prlimit(0, ..)
\* and restrict_self act on the caller only.
SibRunClosure(i) ==
    /\ sibs[i].child.pc = "pre_exec"
    /\ Len(sibs[i].child.ran) < Len(sibs[i].cmd.closures)
    /\ LET f == sibs[i].cmd.closures[Len(sibs[i].child.ran) + 1]
           r == CallClosure(f, sibs[i].child, env)
       IN  sibs' = [sibs EXCEPT
                  ![i].child = [pc |-> IF r.ret.ok THEN "pre_exec" ELSE "aborted",
                                rlim |-> r.rlim, domains |-> r.domains,
                                ran |-> Append(@.ran,
                                           [fn |-> r.fn, inner |-> r.inner,
                                            status |-> r.status, ret |-> r.ret]),
                                klog |-> @.klog \o r.calls],
                  ![i].spawn = IF r.ret.ok THEN @ ELSE r.ret]
    /\ UNCHANGED <<rules, cmd, calls, env, parent, child, spawn, prog, mem>>

\* Every closure of the i-th child returned Ok: it execs.
SibExec(i) ==
    /\ sibs[i].child.pc = "pre_exec"
    /\ Len(sibs[i].child.ran) = Len(sibs[i].cmd.closures)
    /\ sibs' = [sibs EXCEPT ![i].child.pc = "exec", ![i].spawn = Ok]
    /\ UNCHANGED <<rules, cmd, calls, env, parent, child, spawn, prog, mem>>

SibForks == \E i \in 1 .. MaxKids : SibFork(i)

SibRunClosures == \E i \in 1 .. MaxKids : SibRunClosure(i)

SibExecs == \E i \in 1 .. MaxKids : SibExec(i)

NextShared == SibForks \/ SibRunClosures \/ SibExecs

SpecShared == InitShared /\ [][NextShared]_vars

(***************************************************************************)
(* Properties.                                                             *)
(***************************************************************************)
LimitFns == {"max_memory", "max_file_size"}

\* The closure a CommandExt call registers, if any: the _if forms register
\* the closure of the plain form when their argument is present.
Registers(c) ==
    CASE c.fn \in {"restrict", "max_memory", "max_file_size"} -> <<Closure(c.fn, c.arg)>>
      [] c.arg = Absent -> <<>>
      [] c.fn = "restrict_if" -> <<Closure("restrict", c.arg[1])>>
      [] c.fn = "max_memory_if" -> <<Closure("max_memory", c.arg[1])>>
      [] c.fn = "max_file_size_if" -> <<Closure("max_file_size", c.arg[1])>>

RECURSIVE Requested(_)
\* The closures the caller asked for, in the order of the calls.
Requested(cs) ==
    IF cs = <<>> THEN <<>>
    ELSE Requested(SubSeq(cs, 1, Len(cs) - 1)) \o Registers(cs[Len(cs)])

Started == child.pc # "unborn"
PastExec == child.pc \in {"exec", "exited"}

C2_FailClosed ==
    /\ (\E i \in 1 .. Len(child.ran) : child.ran[i].inner # "Ok") =>
          /\ child.pc = "aborted"
          /\ prog = NoProg
          /\ spawn # Pending /\ ~spawn.ok
    /\ spawn.ok => PastExec
    /\ PastExec => spawn.ok

\* A spawn that failed in its second hook.
C2_Witness ==
    /\ child.pc = "aborted"
    /\ Len(child.ran) = 2
    /\ child.ran[1].inner = "Ok"
    /\ child.ran[2].inner # "Ok"
    /\ ~spawn.ok

\* C3: when restrict_self reports NotEnforced, Rules::restrict returns
\* LandlockNotSupported, and the spawn fails with that error as its cause:
\* the child never execs, unsandboxed or otherwise.
C3_NotEnforcedFails ==
    \A i \in 1 .. Len(child.ran) :
        (child.ran[i].fn = "restrict" /\ child.ran[i].status = "NotEnforced") =>
            /\ child.ran[i].inner = "LandlockNotSupported"
            /\ child.ran[i].ret = Err("Other", "LandlockNotSupported")
            /\ child.pc = "aborted"
            /\ spawn = Err("Other", "LandlockNotSupported")
            /\ prog = NoProg

\* A spawn on a kernel without landlock, refused after its limit was set.
C3_Witness ==
    /\ env.abi = 0
    /\ child.pc = "aborted"
    /\ Len(child.ran) = 2
    /\ child.ran[1].fn = "max_memory" /\ child.ran[1].inner = "Ok"
    /\ child.ran[2].status = "NotEnforced"

\* C4 as stated: a restrict that was only partially enforced does not return
\* what a fully enforced one returns (Ok), so the caller can tell them apart.
C4_PartialObservable ==
    \A i \in 1 .. Len(child.ran) :
        child.ran[i].status = "PartiallyEnforced" => child.ran[i].ret # Ok

Range(q) == {q[i] : i \in 1 .. Len(q)}

\* t lies at or beneath one of the paths of list q.
InZone(t, q) == \E p \in Range(q) : Beneath(t, p)

\* The restrict hook of the spawn succeeded and the child has exec'd.
Enforced ==
    /\ PastExec
    /\ Len(child.ran) = 1
    /\ child.ran[1].fn = "restrict"
    /\ child.ran[1].inner = "Ok"

\* What the program's open(2) met, if it has run.
Opened(t, class, allowed) ==
    (prog.op = "open" /\ prog.at = t /\ prog.class = class)
        => (prog.exit = 0) = allowed

\* C5 read-write wins: after a successful enforce, read is granted on a file
\* iff it lies beneath a read_only or read_write path and write iff it lies
\* beneath a write_only or read_write path, whatever the order of the builder
\* calls; so a path listed as read_only and read_write is writable and one
\* listed as write_only and read_write is readable.
C5_ReadWriteWins ==
    Enforced =>
        \A t \in Targets :
            LET r == InZone(t, rules.read_only) \/ InZone(t, rules.read_write)
                w == InZone(t, rules.write_only) \/ InZone(t, rules.read_write)
            IN  /\ Allowed(child.domains, "read", t) = r
                /\ Allowed(child.domains, "write", t) = w
                /\ Opened(t, "read", r)
                /\ Opened(t, "write", w)
                /\ (t \in Range(rules.read_only) \cap Range(rules.read_write)
                        => Allowed(child.domains, "write", t))
                /\ (t \in Range(rules.write_only) \cap Range(rules.read_write)
                        => Allowed(child.domains, "read", t))

\* The program wrote a path that was declared read-only first and
\* read-write afterwards.
C5_Witness ==
    /\ Enforced
    /\ rules.read_only = <<<<"usr">>>>
    /\ rules.read_write = <<<<"usr">>>>
    /\ prog.op = "open" /\ prog.class = "write" /\ prog.at = <<"usr">>
    /\ prog.exit = 0

\* No path is in two of the three lists.
DisjointLists ==
    /\ Range(rules.read_only) \cap Range(rules.read_write) = {}
    /\ Range(rules.read_only) \cap Range(rules.write_only) = {}
    /\ Range(rules.write_only) \cap Range(rules.read_write) = {}

\* No path of one list lies at or beneath a path of another list.
DisjointZones ==
    \A a, b \in {"read_only", "read_write", "write_only"} :
        a # b => \A p \in Range(rules[a]) : ~InZone(p, rules[b])

\* Deny by default, for the policy in force.
DenyByDefault ==
    \A t \in Targets :
        LET ro == InZone(t, rules.read_only)
            wo == InZone(t, rules.write_only)
            rw == InZone(t, rules.read_write)
            rd == Allowed(child.domains, "read", t)
            wr == Allowed(child.domains, "write", t)
        IN  /\ (~ro /\ ~wo /\ ~rw) => (~rd /\ ~wr)
            /\ ro => (rd /\ ~wr)
            /\ wo => (wr /\ ~rd)
            /\ rw => (rd /\ wr)
            /\ Opened(t, "read", rd)
            /\ Opened(t, "write", wr)

\* C6 as stated: for every policy whose path lists are disjoint, after a
\* successful enforce a read or write beneath no declared path is denied, a
\* write beneath a read-only path and a read beneath a write-only path are
\* denied, and access of the matching class inside a zone is allowed.
C6_DenyByDefaultLists == (Enforced /\ DisjointLists) => DenyByDefault

\* C6 amended: the same for every policy whose zones are disjoint (no
\* declared path lies at or beneath a path of another list); a program that
\* reads a file beneath no declared path is refused and exits non-zero.
C6_DenyByDefaultZones == (Enforced /\ DisjointZones) => DenyByDefault

\* The tests' case: system directory read-only, working directory
\* read-write, and the program fails to read /home/user.
C6_Witness ==
    /\ Enforced
    /\ DisjointZones
    /\ rules.read_only = <<<<"usr">>>>
    /\ rules.read_write = <<<<"tmp">>>>
    /\ prog.op = "open" /\ prog.class = "read" /\ prog.at = <<"home", "user">>
    /\ prog.exit # 0

\* The ports of the add_rule calls made for one access right, in call order.
PortsAdded(klog, access) ==
    LET picked == SelectSeq(klog, LAMBDA c :
                      c.call = "add_rule" /\ c.rule.kind = "port"
                          /\ c.rule.access = {access})
    IN  [i \in 1 .. Len(picked) |-> picked[i].rule.port]

\* C7 port sentinel: an empty bind_ports makes enforce add exactly one bind
\* rule, for port 0; a non-empty one makes it add one bind rule per listed
\* port, in list order, and none for port 0 unless listed; the same, on its
\* own, for connect_ports.
C7_PortSentinel ==
    (Started /\ Len(child.ran) = 1) =>
        /\ PortsAdded(child.klog, "bind") =
              IF rules.bind_ports = <<>> THEN <<0>> ELSE rules.bind_ports
        /\ PortsAdded(child.klog, "connect") =
              IF rules.connect_ports = <<>> THEN <<0>> ELSE rules.connect_ports

\* Enforce ran with no bind port and two connect ports listed.
C7_Witness ==
    /\ Enforced
    /\ rules.bind_ports = <<>>
    /\ rules.connect_ports = <<443, 80>>
    /\ PortsAdded(child.klog, "bind") = <<0>>
    /\ PortsAdded(child.klog, "connect") = <<443, 80>>

\* The hooks of function fn that have succeeded in the child so far.
Succeeded(fn) ==
    {i \in 1 .. Len(child.ran) : child.ran[i].fn = fn /\ child.ran[i].inner = "Ok"}

Latest(S) == CHOOSE i \in S : \A j \in S : j <= i

LimitFn(k) ==
    CASE k = "Data" -> "max_memory"
      [] k = "FileSize" -> "max_file_size"
      [] OTHER -> None

\* The limit of kind k the child must be under: both bounds at the byte
\* count of the latest max_memory / max_file_size that succeeded, else what
\* it inherited.
ExpectedRlim(k) ==
    LET S == Succeeded(LimitFn(k))
    IN  IF S = {} THEN parent.rlim[k]
        ELSE [rlim_cur |-> bytes(Requested(calls)[Latest(S)].captured),
              rlim_max |-> bytes(Requested(calls)[Latest(S)].captured)]

\* C8: after a max_memory(s) (max_file_size(s)) hook succeeds the child's
\* soft and hard Data (FileSize) limits both equal s.bytes() and no other
\* limit is changed; a hook whose prlimit fails returns that OS error, which
\* is what spawn() returns; a program that allocates more than s in total
\* exits non-zero, one that allocates no more than s exits zero, and without
\* any max_memory an unlimited parent's child exits zero.
C8_LimitsSet ==
    Started =>
        /\ \A k \in Limits : child.rlim[k] = ExpectedRlim(k)
        /\ \A i \in 1 .. Len(child.ran) :
              (child.ran[i].fn \in LimitFns /\ child.ran[i].inner # "Ok") =>
                  /\ child.ran[i].inner \in {"EPERM", "EINVAL"}
                  /\ child.ran[i].ret = Err("Os", child.ran[i].inner)
                  /\ spawn = child.ran[i].ret
        /\ prog.op = "alloc" =>
              LET S == Succeeded("max_memory")
              IN  IF S # {}
                  THEN LET s == bytes(Requested(calls)[Latest(S)].captured)
                       IN  (prog.exit # 0) = (prog.size > s)
                  ELSE parent.rlim["Data"].rlim_cur = RLIM_INFINITY
                           => prog.exit = 0

\* The test: max_memory(from_mb(5)) and a program allocating 9 MB, which
\* exits with the code of its failed malloc.
C8_Witness ==
    /\ child.pc = "exited"
    /\ Len(child.ran) = 1
    /\ child.ran[1].fn = "max_memory" /\ child.ran[1].inner = "Ok"
    /\ child.rlim["Data"] = [rlim_cur |-> 5000000, rlim_max |-> 5000000]
    /\ prog.op = "alloc" /\ prog.size = 9000000
    /\ prog.exit = ExitOutOfMemory

OtherFlavor(f) == IF f = "std" THEN "tokio" ELSE "std"

RECURSIVE InstallAll(_, _)
\* The command after the calls cs have been made on c, in order.
InstallAll(c, cs) ==
    IF cs = <<>> THEN c
    ELSE CommandExtCall(InstallAll(c, SubSeq(cs, 1, Len(cs) - 1)),
                        cs[Len(cs)].fn, cs[Len(cs)].arg)

RECURSIVE RunAll(_, _, _, _)
\* The child's way from fork to exec or abort with closures fs, from the
\* i-th on, in process state st on kernel e.
RunAll(fs, i, st, e) ==
    IF i > Len(fs) THEN [st EXCEPT !.pc = "exec", !.spawn = Ok]
    ELSE LET r == CallClosure(fs[i], st, e)
             next == [pc |-> IF r.ret.ok THEN "pre_exec" ELSE "aborted",
                      rlim |-> r.rlim, domains |-> r.domains,
                      ran |-> Append(st.ran, [fn |-> r.fn, inner |-> r.inner,
                                              status |-> r.status, ret |-> r.ret]),
                      klog |-> st.klog \o r.calls,
                      spawn |-> IF r.ret.ok THEN st.spawn ELSE r.ret]
         IN  IF r.ret.ok THEN RunAll(fs, i + 1, next, e) ELSE next

Fns(fs) == [i \in 1 .. Len(fs) |-> fs[i].fn]

Scale(u) ==
    CASE u = "bytes"     -> 1
      [] u = "kilobytes" -> 1000
      [] u = "megabytes" -> 1000000
      [] u = "gigabytes" -> 1000000000
      [] u = "kibibytes" -> 1024
      [] u = "mebibytes" -> 1048576
      [] u = "gibibytes" -> 1073741824

\* C10: for every unit U of scale k and count n, from_U(n).bytes() = n * k
\* and from_U(n).U() = n; reading any size of b bytes in unit U gives
\* floor(b / k); from_mb(5) is 5_000_000 bytes, from_mib(5) is 5_242_880
\* bytes, and 1_500_000 bytes are 1 megabyte.
C10_UnitArithmetic ==
    mem.unit # None =>
        /\ bytes(mem.size) = mem.count * Scale(mem.unit)
        /\ Access(mem.unit, mem.size) = mem.count
        /\ mem.read # None =>
              /\ mem.out = bytes(mem.size) \div Scale(mem.read)
              /\ Access(mem.read, from_bytes(bytes(mem.size))) = mem.out
        /\ (mem.unit = "megabytes" /\ mem.count = 5) => bytes(mem.size) = 5000000
        /\ (mem.unit = "mebibytes" /\ mem.count = 5) => bytes(mem.size) = 5242880
        /\ (mem.unit = "bytes" /\ mem.count = 1500000 /\ mem.read = "megabytes")
              => mem.out = 1

\* from_bytes(1_500_000).megabytes() has been evaluated.
C10_Witness ==
    /\ mem.unit = "bytes"
    /\ mem.count = 1500000
    /\ mem.read = "megabytes"
    /\ mem.out = 1

\* The restrict hook of the spawn has run and a call of Rules::restrict
\* was refused.
Refused ==
    /\ Len(child.ran) = 1
    /\ child.ran[1].fn = "restrict"
    /\ child.ran[1].inner \notin {"Ok", "LandlockNotSupported"}

\* The stage of the call that was refused: the last call made.
RefusedStage == child.klog[Len(child.klog)].stage

\* The Error a refusal at stage st is reported as, for a policy with a path
\* in every list.
ReportedAs(st) ==
    LET full == add_read_write(add_write_only(add_read_only(Rules_new,
                    <<"usr">>), <<"tmp">>), <<"usr", "lib">>)
    IN  Rules_restrict(full, [env EXCEPT !.abi = ABI_V4, !.failAt = st, !.nth = 1]).result

\* C11 as stated: every failing step reports a category of its own; a
\* refused path rule and a refused enforce-on-self are not reported as
\* AccessFs, the category of a refused filesystem access declaration, and
\* refused bind and connect port rules are told apart.
C11_OwnCategory ==
    Refused =>
        /\ \A st \in Stages \ {RefusedStage} : ReportedAs(st) # child.ran[1].inner
        /\ RefusedStage \in {"read_only", "write_only", "read_write", "restrict_self"}
              => child.ran[1].inner # ReportedAs("handle_fs")
        /\ RefusedStage = "bind" => child.ran[1].inner = "SetBindPorts"
        /\ RefusedStage = "connect" => child.ran[1].inner = "SetConnectPorts"

\* The order in which Rules::restrict is to make its steps.
StageOrder ==
    <<"handle_fs", "handle_net", "create", "bind", "connect",
      "read_only", "write_only", "read_write", "restrict_self">>

Rank(st) == CHOOSE i \in 1 .. Len(StageOrder) : StageOrder[i] = st

\* The paths of the add_rule calls made with one set of rights, in call order.
PathsAdded(klog, access) ==
    LET picked == SelectSeq(klog, LAMBDA c :
                      c.call = "add_rule" /\ c.rule.kind = "path"
                          /\ c.rule.access = access)
    IN  [i \in 1 .. Len(picked) |-> picked[i].rule.path]

\* The calls a stage consists of when none is refused.
Want(st) ==
    CASE st = "bind"       -> IF rules.bind_ports = <<>> THEN 1 ELSE Len(rules.bind_ports)
      [] st = "connect"    -> IF rules.connect_ports = <<>> THEN 1
                              ELSE Len(rules.connect_ports)
      [] st = "read_only"  -> Len(rules.read_only)
      [] st = "write_only" -> Len(rules.write_only)
      [] st = "read_write" -> Len(rules.read_write)
      [] OTHER             -> 1

\* The calls of a stage the child has made.
Made(st) == Cardinality({i \in 1 .. Len(child.klog) : child.klog[i].stage = st})

\* The Error each step maps a refusal to (lib.rs:121-168).
StepError(st) ==
    CASE st = "handle_net" -> "AcessNet"
      [] st = "create"     -> "CreateRuleset"
      [] st = "bind"       -> "SetBindPorts"
      [] st = "connect"    -> "SetConnectPorts"
      [] OTHER             -> "AccessFs"

IsPrefix(s, t) == Len(s) <= Len(t) /\ s = SubSeq(t, 1, Len(s))

\* C12 fixed step order: Rules::restrict makes its calls in the order declare
\* filesystem classes, declare network classes, create, bind rules, connect
\* rules, read-only, write-only, read-write path rules, enforce-on-self,
\* each list in builder insertion order; when a call is refused it returns
\* that step's error, every earlier step was made in full, no later call is
\* made (enforce-on-self included) and the caller's access is unchanged.
C12_FixedOrder ==
    (Len(child.ran) = 1 /\ child.ran[1].fn = "restrict") =>
        /\ \A i, j \in 1 .. Len(child.klog) :
              i < j => Rank(child.klog[i].stage) <= Rank(child.klog[j].stage)
        /\ IsPrefix(PortsAdded(child.klog, "bind"),
                    IF rules.bind_ports = <<>> THEN <<0>> ELSE rules.bind_ports)
        /\ IsPrefix(PortsAdded(child.klog, "connect"),
                    IF rules.connect_ports = <<>> THEN <<0>> ELSE rules.connect_ports)
        /\ IsPrefix(PathsAdded(child.klog, {"read"}), rules.read_only)
        /\ IsPrefix(PathsAdded(child.klog, {"write"}), rules.write_only)
        /\ IsPrefix(PathsAdded(child.klog, {"read", "write"}), rules.read_write)
        /\ IF Refused
           THEN /\ \A st \in Stages :
                      Made(st) = IF Rank(st) < Rank(env.failAt) THEN Want(st)
                                 ELSE IF st = env.failAt THEN env.nth ELSE 0
                /\ child.ran[1].inner = StepError(env.failAt)
                /\ child.domains = parent.domains
                /\ child.pc = "aborted"
                /\ ~spawn.ok
           ELSE /\ \A st \in Stages : Made(st) = Want(st)
                /\ child.ran[1].inner = "Ok" => Len(child.domains) = 1

\* The kernel refused the second of three read-only path rules: the first
\* two were submitted, in insertion order, and nothing after them.
C12_Witness ==
    /\ Refused
    /\ rules.read_only = <<<<"tmp">>, <<"usr">>, <<"usr", "lib">>>>
    /\ env.failAt = "read_only"
    /\ PathsAdded(child.klog, {"read"}) = <<<<"tmp">>, <<"usr">>>>
    /\ Len(child.klog) = 7
    /\ child.domains = <<>>

\* The end a child of command c reaches when it is the parent's only spawn.
Alone(c) ==
    RunAll(c.closures, 1,
           [pc |-> "pre_exec", rlim |-> ParentRlim(env.hard), domains |-> <<>>,
            ran |-> <<>>, klog |-> <<>>, spawn |-> Pending], env)

SibDone(i) == sibs[i].child.pc \in {"aborted", "exec"}

\* C13 shared Rules: whatever the interleaving of the children's hooks, the
\* Rules value and every clone captured by a closure stay what was built,
\* the parent keeps its limits and has no landlock layer, every hook a child
\* has run gave what it gives in a lone spawn, and a finished child has the
\* limits, layers and spawn() result of a lone spawn of its command.
C13_SharedRulesIsolated ==
    /\ rules = Example
    /\ parent = [rlim |-> ParentRlim(env.hard), domains |-> <<>>]
    /\ \A i \in 1 .. Len(sibs) :
          LET k == sibs[i]
              alone == Alone(k.cmd)
          IN  /\ \A j \in 1 .. Len(k.cmd.closures) :
                    k.cmd.closures[j].fn = "restrict"
                        => k.cmd.closures[j].captured = rules
              /\ IsPrefix(k.child.ran, alone.ran)
              /\ IsPrefix(k.child.klog, alone.klog)
              /\ SibDone(i) =>
                    /\ k.child.pc = alone.pc
                    /\ k.child.ran = alone.ran
                    /\ k.child.rlim = alone.rlim
                    /\ k.child.domains = alone.domains
                    /\ k.spawn = alone.spawn

\* Two spawns share the Rules: one child was aborted by its max_memory hook
\* after enforcing the policy, the other has exec'd under the policy with
\* its limit lowered.
C13_Witness ==
    /\ Len(sibs) >= 2
    /\ sibs[1].child.pc = "aborted"
    /\ Len(sibs[1].child.ran) = 2
    /\ sibs[1].child.ran[1].inner = "Ok"
    /\ ~sibs[1].spawn.ok
    /\ sibs[2].child.pc = "exec"
    /\ Len(sibs[2].child.ran) = 2
    /\ Len(sibs[2].child.domains) = 1
    /\ sibs[2].child.rlim["Data"].rlim_max = bytes(from_mb(5))
    /\ sibs[2].spawn.ok

\* The calls that install a hook: the plain forms, and the _if forms whose
\* argument is present.
Installing(cs) ==
    {i \in 1 .. Len(cs) :
        cs[i].fn \in {"restrict_if", "max_memory_if", "max_file_size_if"}
            => cs[i].arg # Absent}

\* The policies whose restrict hook the child has run with success.
EnforcedPolicies ==
    {cmd.closures[i].captured : i \in {j \in 1 .. Len(child.ran) :
        child.ran[j].fn = "restrict" /\ child.ran[j].inner = "Ok"}}

\* What one policy alone grants on this kernel.
GrantedAlone(policy, class, at) ==
    Allowed(<<Rules_restrict(policy, env).layer>>, class, at)

\* C14 hooks accumulate: the command holds one hook per call that installs
\* one, in call order, and none for an _if call with an absent argument; the
\* child runs them in that order, every hook before the last one run
\* succeeded, the child is aborted exactly when the last one run failed and
\* has exec'd only after all succeeded; every successful restrict hook adds
\* a layer of its own, so the child can do only what each enforced policy
\* alone grants.
C14_HooksAccumulate ==
    /\ Len(cmd.closures) = Cardinality(Installing(calls))
    /\ Fns(cmd.closures) = Fns(Requested(calls))
    /\ cmd.closures = Requested(calls)
    /\ Len(child.ran) <= Len(cmd.closures)
    /\ \A i \in 1 .. Len(child.ran) :
          /\ child.ran[i].fn = cmd.closures[i].fn
          /\ i < Len(child.ran) => child.ran[i].ret.ok
    /\ child.pc = "aborted" <=>
          (child.ran # <<>> /\ ~child.ran[Len(child.ran)].ret.ok)
    /\ PastExec =>
          /\ Len(child.ran) = Len(cmd.closures)
          /\ \A i \in 1 .. Len(child.ran) : child.ran[i].ret.ok
    /\ Len(child.domains) =
          Cardinality({i \in 1 .. Len(child.ran) :
              child.ran[i].fn = "restrict" /\ child.ran[i].inner = "Ok"})
    /\ \A policy \in EnforcedPolicies :
          /\ \A class \in {"read", "write"}, at \in Targets :
                Allowed(child.domains, class, at) => GrantedAlone(policy, class, at)
          /\ \A class \in {"bind", "connect"}, at \in Ports \cup {0} :
                Allowed(child.domains, class, at) => GrantedAlone(policy, class, at)

\* Two restrict calls with different policies on one command: the child has
\* exec'd under two layers and may neither write the working directory,
\* which the first policy alone grants, nor read /usr, which the second
\* policy does not grant.
C14_Witness ==
    /\ PastExec
    /\ Len(calls) = 2
    /\ calls[1].fn = "restrict" /\ calls[1].arg = Example
    /\ calls[2].fn = "restrict" /\ calls[2].arg = Second
    /\ Len(child.ran) = 2
    /\ Len(child.domains) = 2
    /\ GrantedAlone(Example, "write", <<"tmp", "out">>)
    /\ ~Allowed(child.domains, "write", <<"tmp", "out">>)
    /\ ~Allowed(child.domains, "read", <<"usr", "lib">>)
    /\ Allowed(child.domains, "read", <<"tmp", "out">>)

====
